---- MODULE Spec2Model ----
(***************************************************************************)
(* The video acquisition pipeline of gongexport:                           *)
(*   VideoDownloader (src/src/utils/videoDownloader.js),                   *)
(*   GongExport.getSignedMediaUrl (src/unnamed/part_001, api/gongExport.js)*)
(*   and the refresh hook built by export.js (src/unnamed/part_002).       *)
(*                                                                         *)
(* One behaviour is one export run of the download phase over a fixed      *)
(* array of call records, optionally followed by a second run over the     *)
(* same records and the same storage root.  The remote servers are the     *)
(* environment: every HTTP response is a nondeterministic choice.          *)
(***************************************************************************)
EXTENDS Integers, Sequences, FiniteSets, TLC

\* ------------------------------------------------------------------ bounds
\* number of call records in the input array
NumCalls == 2
MaxPages == 3
MaxTitle == 3
MaxStall == 4
\* most HTTP 429 answers the media server gives while one record is processed
Max429 == 1

\* The daily ceiling rateLimit.callsPerDay, scaled down: the program's value
\* is 10000.
CallsPerDay == 2
\* Length of the daily window in units of the minimum gap between two calls.
\* The program's window is 24 h, 157090 minimum gaps: as there, more than
\* CallsPerDay + 1 calls fit into one window.
WindowGaps == 4
\* the clock of the limiter stops after this many window lengths
MaxWindows == 3

\* ------------------------------------------------------- program constants
DefaultMaxRetries == 3
DefaultRetryDelay == 2000
DefaultRetryAfter == 60

\* rateLimit.callsPerSecond
callsPerSecond == 2

\* minTimeBetweenCalls = (1000 / this.rateLimit.callsPerSecond) + 50, in ms
minTimeBetweenCalls == (1000 \div callsPerSecond) + 50

\* the 24 * 60 * 60 * 1000 ms added to Date.now() for resetTime, scaled
DayMs == WindowGaps * minTimeBetweenCalls

\* the granularity of the clock: half a minimum gap
TickMs == minTimeBetweenCalls \div 2

MaxNow == MaxWindows * DayMs

\* ------------------------------------------------------------------- URLs
\* A URL is abstracted to what the code reads from it: where it came from,
\* which extension substring it contains, and whether it names s3.amazonaws.com.
NoUrl == [src |-> "none", ext |-> "none", s3 |-> FALSE]

\* call.media.videoUrl of an extensive call record
EmbeddedUrls == {[src |-> "embedded", ext |-> "mp4", s3 |-> TRUE]}

\* the url field of a /v2/calls/{id}/media response body
ApiUrls == {[src |-> "api", ext |-> "mp4", s3 |-> TRUE],
            [src |-> "api", ext |-> "webm", s3 |-> FALSE]}

\* what a refresh hook that is not export.js's wrapper may hand back
CustomHookUrls == {[src |-> "hook", ext |-> "other", s3 |-> FALSE]}

CallIds == 1..NumCalls

\* an input record: its id is its position; videoUrl is NoUrl when absent
CallRecords == [videoUrl : {NoUrl} \cup EmbeddedUrls]

\* fileExt: '.mp4' if the URL contains '.mp4', else '.webm' if it contains
\* '.webm', else '.mp4'
FileExt(u) ==
    IF u.ext = "mp4" THEN ".mp4"
    ELSE IF u.ext = "webm" THEN ".webm"
    ELSE ".mp4"

\* the filename template `${date_}${callId}_${title}${fileExt}`; date and
\* title are functions of the record, so the record's id stands for them
Filename(callId, u) == <<callId, FileExt(u)>>

Paths == CallIds \X {".mp4", ".webm"}

\* ---------------------------------------------------- signed-URL resolver
\* one response of PUT/DELETE /v2/calls/{id}/media: an HTTP error (ok =
\* FALSE), or a 2xx body with or without a url field
ApiResponses ==
    {[ok |-> FALSE, url |-> NoUrl], [ok |-> TRUE, url |-> NoUrl]}
        \cup {[ok |-> TRUE, url |-> u] : u \in ApiUrls}

\* variant: the fallbacks are all tried and the last URL found is returned
getSignedMediaUrl_LastUrl(r1, r2, r3) ==
    IF r1.ok
    THEN IF r1.url # NoUrl
         THEN [result |-> "url", url |-> r1.url, nreq |-> 1]
         ELSE [result |-> "null", url |-> NoUrl, nreq |-> 1]
    ELSE IF r3.ok /\ r3.url # NoUrl
         THEN [result |-> "url", url |-> r3.url, nreq |-> 3]
         ELSE IF r2.ok /\ r2.url # NoUrl
              THEN [result |-> "url", url |-> r2.url, nreq |-> 2]
              ELSE [result |-> "throw", url |-> NoUrl, nreq |-> 3]

\* getSignedMediaUrl(callId), given the answers the three attempts would get:
\* PUT octet-stream; on its HTTP error PUT text/plain, then DELETE; when all
\* fail the first PUT's error is rethrown.  nreq is the number of requests.
getSignedMediaUrl(r1, r2, r3) ==
    IF r1.ok
    THEN IF r1.url # NoUrl
         THEN [result |-> "url", url |-> r1.url, nreq |-> 1]
         ELSE [result |-> "null", url |-> NoUrl, nreq |-> 1]
    ELSE IF r2.ok /\ r2.url # NoUrl
         THEN [result |-> "url", url |-> r2.url, nreq |-> 2]
         ELSE IF r3.ok /\ r3.url # NoUrl
              THEN [result |-> "url", url |-> r3.url, nreq |-> 3]
              ELSE [result |-> "throw", url |-> NoUrl, nreq |-> 3]

SignedOutcomes ==
    {getSignedMediaUrl(r1, r2, r3) : r1 \in ApiResponses, r2 \in ApiResponses,
                                     r3 \in ApiResponses}

\* ------------------------------------------------------------ refresh hook
\* hookKind "none": no refreshUrlCallback.  "wrapper": the callback export.js
\* passes, getSignedMediaUrl inside a try/catch that turns every error into
\* null.  "custom": any other (callId) -> URL | null, which may also throw.
\* caught: getSignedMediaUrl raised and the wrapper's catch turned it into null.
HookKinds == {"none", "wrapper", "custom"}

refreshUrlCallback(kind) ==
    IF kind = "wrapper"
    THEN {[result |-> IF g.result = "url" THEN "url" ELSE "null",
           url |-> g.url, api |-> TRUE, caught |-> g.result = "throw"] :
                g \in SignedOutcomes}
    ELSE {[result |-> "url", url |-> u, api |-> FALSE, caught |-> FALSE] :
                u \in CustomHookUrls}
            \cup {[result |-> "null", url |-> NoUrl, api |-> FALSE, caught |-> FALSE],
                  [result |-> "throw", url |-> NoUrl, api |-> FALSE, caught |-> FALSE]}

\* ------------------------------------------------------- media responses
NoHeader == -1
RetryAfterHeaders == {NoHeader, 30}

\* "200": the response stream is handed over; anything else makes axios throw
ErrorStatuses == {"403", "500", "ECONNRESET"}

MediaResponses ==
    {[status |-> s, retryAfter |-> NoHeader] : s \in {"200"} \cup ErrorStatuses}
        \cup {[status |-> "429", retryAfter |-> h] : h \in RetryAfterHeaders}

\* parseInt(error.response.headers['retry-after'] || '60', 10)
RetryAfterSeconds(h) == IF h = NoHeader THEN DefaultRetryAfter ELSE h

\* the condition of the "S3 access error" branch
IsS3AccessError(e, u) ==
    \/ e.status = "403" /\ u.s3
    \/ e.status = "ECONNRESET"

RECURSIVE Pow2(_)
Pow2(n) == IF n = 0 THEN 1 ELSE 2 * Pow2(n - 1)

\* nextDelay = retryDelay * Math.pow(2, retryCount)
NextDelay(delay, retryCount) == delay * Pow2(retryCount)

\* variant: off by one
RetriesLeft_OffByOne(retryCount, maxRetries) == retryCount <= maxRetries

\* whether another retry is allowed
RetriesLeft(retryCount, maxRetries) == retryCount < maxRetries

Max(a, b) == IF a >= b THEN a ELSE b

\* --------------------------------------------------------------- state
VARIABLES
    method,           \* "extensive": downloadVideosFromExtensiveCalls, "standard": downloadVideosForCalls
    hookKind,         \* this.refreshUrlCallback
    calls,            \* the input array
    dirState,         \* the downloads directory: "exists" | "absent"
    fs,               \* Paths -> "absent" | "partial" | "complete"
    run,              \* 1 or 2: which run of the download phase
    pc,               \* where the single thread of control is
    idx,              \* position of the for-of loop in calls
    downloadedFiles,  \* the success list
    failedDownloads,  \* the failure list
    failedFile,       \* failed_video_downloads_*.json: written or not, and its content
    returned,         \* what the batch method returned: whether it has, and the value
    dv,               \* the arguments of the running downloadVideo call
    err,              \* the error caught by downloadVideo's outer catch
    obs,              \* observations of the record being processed (history)
    now,              \* Date.now(), in ms since the VideoDownloader's clock origin
    rateLimit,        \* this.rateLimit: currentCalls, resetTime, lastCallTime
    lim,              \* observations of the limiter's passes (history)
    provider,         \* the answers of /v2/calls/{id}/media to PUT, PUT, DELETE
    signed,           \* what getSignedMediaUrl(callId) came to, with the attempts made
    pg,               \* getAllExtensiveCallData: the server's pages and the loop's locals
    exp,              \* exportGongData: its position, requests, files and exit status
    fn,               \* the naming of one call's file: the call's fields and the name
    tally             \* attempts, requests and caught errors of the call being downloaded (history)

vars == <<method, hookKind, calls, dirState, fs, run, pc, idx, downloadedFiles,
          failedDownloads, failedFile, returned, dv, err, obs,
          now, rateLimit, lim, provider, signed, pg, exp, fn, tally>>

\* the batch loop and one download
pipeline == <<method, hookKind, calls, dirState, fs, run, pc, idx, downloadedFiles,
              failedDownloads, failedFile, returned, dv, err, obs>>

\* the limiter, the signed-URL resolver and the exporter's own steps taken
\* on their own: their state is followed in specifications of their own and
\* stands still in Spec
exporter == <<pg, exp, fn>>
standalone == <<now, rateLimit, lim, provider, signed, exporter, tally>>

config == <<method, hookKind, calls>>
lists == <<downloadedFiles, failedDownloads>>

NoDv == [url |-> NoUrl, filename |-> <<0, "">>, retryCount |-> 0,
         maxRetries |-> DefaultMaxRetries, retryDelay |-> DefaultRetryDelay]

NoErr == [status |-> "none", retryAfter |-> NoHeader]

\* obs: attempts   - respectRateLimit passes since downloadVideo was last called
\*                   afresh (by the loop, or by the 429 branch)
\*      delays     - the backoff delays slept since then, in order
\*      reqs       - kinds of requests issued for this record
\*      targets    - URLs media GETs were sent to
\*      owed       - ms of Retry-After wait still outstanding after the last answer
\*      owedAtReq  - owed, when the latest media request was issued
\*      n429       - 429 answers for this record
\*      resolved   - how URL resolution ended: "pending","url","none","threw"
\*      hook       - what the refresh hook did: "notcalled","url","null","throw",
\*                   or "caught" when it returned null for an error it caught
\*      hookUrl    - the URL the hook returned
\*      embedded   - whether the record carries an embedded URL
\*      run1Clean  - run 1 ended with every call completed
\*      gate       - a pass of respectRateLimit has completed and no request
\*                   was issued since
\*      att        - the media requests of the attempt under way, in order:
\*                   whether each carried the Authorization header and got a 200
NoObs == [attempts |-> 0, delays |-> <<>>, reqs |-> {},
          gate |-> FALSE, att |-> <<>>,
          targets |-> {}, owed |-> 0, owedAtReq |-> 0,
          n429 |-> 0, resolved |-> "pending", hook |-> "notcalled",
          hookUrl |-> NoUrl, embedded |-> FALSE, run1Clean |-> FALSE]

\* what is noted of the hook's result h
HookObserved(h) == IF h.caught THEN "caught" ELSE h.result

\* no failure side-file yet; the batch method still running
NoFile == [written |-> FALSE, content |-> <<>>]
NotReturned == [done |-> FALSE, value |-> <<>>]

\* the observations a new record starts with
FreshObs == [NoObs EXCEPT !.run1Clean = obs.run1Clean]

\* the arrays a method is called with: getAllExtensiveCallData's records may
\* carry media.videoUrl, the records of GET /v2/calls carry none
InputArrays(m) ==
    IF m = "extensive"
    THEN [CallIds -> CallRecords]
    ELSE [CallIds -> {[videoUrl |-> NoUrl]}]

\* the storage root before the run: without the directory there is no file;
\* with it, any of the records' .mp4 files may be there from an earlier run
StorageRoots(dir) ==
    {[p \in Paths |-> IF p[1] \in pre /\ p[2] = ".mp4" THEN "complete" ELSE "absent"] :
        pre \in IF dir = "absent" THEN {{}} ELSE SUBSET CallIds}

\* when the VideoDownloader is constructed, on the model's clock: Date.now()
\* is then far more than one window away from 0, the initial lastCallTime
ConstructedAt == DayMs

\* this.rateLimit as the constructor leaves it
NewRateLimit(t) == [currentCalls |-> 0, resetTime |-> t + DayMs, lastCallTime |-> 0]

\* lim: passes    - completed passes of respectRateLimit
\*      lastStart - when the last pass let its caller go on, -1 before the first
\*      gap       - ms between the last two such moments, -1 before the second
\*      suspended - the last pass waited for the daily reset
\*      winStart  - when the current 24-hour window began: the first reset of
\*                  the counter that is a whole window after the previous beginning
\*      winCount  - passes completed since winStart
NoLim == [passes |-> 0, gap |-> -1, lastStart |-> -1, suspended |-> FALSE,
          winStart |-> ConstructedAt, winCount |-> 0]

LimiterInit ==
    /\ now = ConstructedAt
    /\ rateLimit = NewRateLimit(now)
    /\ lim = NoLim

\* the three attempts of getSignedMediaUrl, in the order of the code
Attempts == <<"PUT application/octet-stream", "PUT text/plain", "DELETE">>

NoSigned == [result |-> "pending", url |-> NoUrl, nreq |-> 0]

NoProvider == [a \in 1..Len(Attempts) |-> [ok |-> FALSE, url |-> NoUrl]]

SignedIdle ==
    /\ provider = NoProvider
    /\ signed = NoSigned

\* The state in which a batch method enters its loop: it was handed an array
\* (and, for the standard method, the GongExport instance export.js passes),
\* so neither early `return []` is taken.
PipelineInit ==
    /\ method \in {"extensive", "standard"}
    /\ hookKind \in HookKinds
    /\ calls \in InputArrays(method)
    /\ dirState \in {"exists", "absent"}
    /\ fs \in StorageRoots(dirState)
    /\ run = 1
    /\ pc = "loop"
    /\ idx = 1
    /\ downloadedFiles = <<>>
    /\ failedDownloads = <<>>
    /\ failedFile = NoFile
    /\ returned = NotReturned
    /\ dv = NoDv
    /\ err = NoErr
    /\ obs = NoObs

\* ------------------------------------------------ POST /v2/calls/extensive
\* let cursor = null: no cursor.  The cursor the server hands out for page p
\* is p itself; page 0 answers the request that carries no cursor.
NoCursor == 0
PageIds == 0..(MaxPages - 1)

\* the calls of page p when it carries one or two: (p, 1), (p, 2)
PageCallLists(p) == {<<>>, <<(<<p, 1>>)>>, <<(<<p, 1>>), (<<p, 2>>)>>}

\* response.data of one page: the request may fail; `calls` may be missing
\* or not an array; records.cursor is missing on the last page
PageResponses(p) ==
    {[ok |-> TRUE, hasCalls |-> TRUE, calls |-> l, cursor |-> c] :
        l \in PageCallLists(p), c \in {NoCursor} \cup {q \in PageIds : q > p}}
    \cup {[ok |-> TRUE, hasCalls |-> FALSE, calls |-> <<>>, cursor |-> c] :
        c \in {NoCursor} \cup {q \in PageIds : q > p}}
    \cup {[ok |-> FALSE, hasCalls |-> FALSE, calls |-> <<>>, cursor |-> NoCursor]}

Servers == {sv \in [PageIds -> UNION {PageResponses(p) : p \in PageIds}] :
                \A p \in PageIds : sv[p] \in PageResponses(p)}

\* getAllExtensiveCallData not called
NoPages ==
    [server |-> [p \in PageIds |-> [ok |-> FALSE, hasCalls |-> FALSE,
                                     calls |-> <<>>, cursor |-> NoCursor]],
     pc |-> "idle", cursor |-> NoCursor, allCalls |-> <<>>,
     requests |-> <<>>, responses |-> <<>>]

\* nothing attempted yet for any call
NoTally ==
    [c \in CallIds |-> [total |-> 0, errors |-> 0, handled429 |-> 0,
                        requests |-> 0, refused |-> 0]]
TallyIdle == tally = NoTally

\* exportGongData not called
NoExport ==
    [pc |-> "idle", statusOk |-> FALSE, requests |-> {}, files |-> {},
     downloader |-> FALSE, exit |-> "running", retrieval |-> "none", ran |-> {}]

\* no file being named
NoNaming ==
    [pc |-> "idle", method |-> "extensive", started |-> "", hasTitle |-> FALSE,
     title |-> <<>>, url |-> <<>>, filename |-> <<>>]

ExporterIdle == pg = NoPages /\ exp = NoExport /\ fn = NoNaming

Init == PipelineInit /\ LimiterInit /\ SignedIdle /\ ExporterIdle /\ TallyIdle

\* ------------------------------------------------ the end of one iteration
\* downloadedFiles.push({callId, title, filePath}) and on to the next record
PushSuccess(path) ==
    /\ downloadedFiles' = Append(downloadedFiles, [callId |-> idx, filePath |-> path])
    /\ failedDownloads' = failedDownloads
    /\ idx' = idx + 1
    /\ pc' = "loop"

\* failedDownloads.push({callId, title, <key>: <msg>}) and on to the next
\* record: `continue`, or the end of the loop body, or the catch block
PushFailure(key, msg) ==
    /\ failedDownloads' = Append(failedDownloads, [callId |-> idx, key |-> key, msg |-> msg])
    /\ downloadedFiles' = downloadedFiles
    /\ idx' = idx + 1
    /\ pc' = "loop"

\* downloadVideo returned a path: if (filePath) downloadedFiles.push(...)
ReturnPath(path) == PushSuccess(path)

\* variant: the null result is dropped, nothing is pushed
ReturnNull_Dropped ==
    /\ idx' = idx + 1
    /\ pc' = "loop"
    /\ UNCHANGED lists

\* downloadVideo returned null: else failedDownloads.push({reason: ...})
ReturnNull == PushFailure("reason", "Download returned null")

\* variant: no catch around the loop body, the exception leaves the loop
Throw_Escapes(msg) ==
    /\ pc' = "returned"
    /\ UNCHANGED <<idx, lists>>

\* downloadVideo threw: catch (error) failedDownloads.push({error: error.message})
Throw(msg) == PushFailure("error", msg)

\* -------------------------------------- downloadVideosFromExtensiveCalls
\* variant: the `continue` is missing, the record falls through to the download
ExtensiveNoUrl_FallsThrough ==
    /\ pc = "loop" /\ method = "extensive" /\ idx <= NumCalls
    /\ calls[idx].videoUrl = NoUrl
    /\ pc' = "downloadVideo"
    /\ dv' = [NoDv EXCEPT !.filename = Filename(idx, NoUrl)]
    /\ obs' = [FreshObs EXCEPT !.resolved = "none"]
    /\ UNCHANGED <<standalone, config, dirState, fs, run, idx, lists, failedFile, returned, err>>

\* a record without call.media.videoUrl: pushed as a failure, `continue`
ExtensiveNoUrl ==
    /\ pc = "loop" /\ method = "extensive" /\ idx <= NumCalls
    /\ calls[idx].videoUrl = NoUrl
    /\ PushFailure("reason", "No video URL in extensive call data")
    /\ obs' = [FreshObs EXCEPT !.resolved = "none"]
    /\ UNCHANGED <<standalone, config, dirState, fs, run, failedFile, returned, dv, err>>

\* variant: the refreshed URL is ignored
FreshVideoUrl_Embedded(videoUrl, h) == videoUrl

\* variant: what the hook returned is used whatever it is
FreshVideoUrl_HookOnly(videoUrl, h) == h.url

\* freshVideoUrl: the refreshed URL when the hook returned one, else videoUrl
FreshVideoUrl(videoUrl, h) == IF h.result = "url" THEN h.url ELSE videoUrl

\* a record with an embedded URL: the filename is built from the embedded
\* URL, the hook (if any) is awaited inside its own try/catch, and
\* downloadVideo(freshVideoUrl, filename) is called
ExtensiveResolve ==
    /\ pc = "loop" /\ method = "extensive" /\ idx <= NumCalls
    /\ calls[idx].videoUrl # NoUrl
    /\ LET videoUrl == calls[idx].videoUrl
           filename == Filename(idx, videoUrl)
       IN  \/ /\ hookKind = "none"
              /\ dv' = [NoDv EXCEPT !.url = videoUrl, !.filename = filename]
              /\ obs' = [FreshObs EXCEPT !.resolved = "url", !.embedded = TRUE]
           \/ /\ hookKind # "none"
              /\ \E h \in refreshUrlCallback(hookKind) :
                    /\ dv' = [NoDv EXCEPT !.url = FreshVideoUrl(videoUrl, h),
                                          !.filename = filename]
                    /\ obs' = [FreshObs EXCEPT
                                 !.resolved = "url", !.embedded = TRUE,
                                 !.hook = HookObserved(h), !.hookUrl = h.url,
                                 !.reqs = {"hook"} \cup (IF h.api THEN {"api"} ELSE {})]
    /\ pc' = "downloadVideo"
    /\ UNCHANGED <<standalone, config, dirState, fs, run, idx, lists, failedFile, returned, err>>

\* ------------------------------------------------ downloadVideosForCalls
\* the inner try: the refresh hook first, when there is one
StandardHook ==
    /\ pc = "loop" /\ method = "standard" /\ idx <= NumCalls
    /\ \/ /\ hookKind = "none"
          /\ pc' = "getSignedMediaUrl"
          /\ obs' = FreshObs
          /\ UNCHANGED <<dv, idx, lists>>
       \/ /\ hookKind # "none"
          /\ \E h \in refreshUrlCallback(hookKind) :
               LET o == [FreshObs EXCEPT
                           !.hook = HookObserved(h), !.hookUrl = h.url,
                           !.reqs = {"hook"} \cup (IF h.api THEN {"api"} ELSE {})]
               IN  CASE h.result = "url" ->
                          /\ dv' = [NoDv EXCEPT !.url = h.url,
                                                !.filename = Filename(idx, h.url)]
                          /\ obs' = [o EXCEPT !.resolved = "url"]
                          /\ pc' = "downloadVideo"
                          /\ UNCHANGED <<idx, lists>>
                     [] h.result = "null" ->
                          /\ obs' = o
                          /\ pc' = "getSignedMediaUrl"
                          /\ UNCHANGED <<dv, idx, lists>>
                     [] h.result = "throw" ->
                          /\ obs' = [o EXCEPT !.resolved = "threw"]
                          /\ PushFailure("error", "Failed to get signed URL")
                          /\ UNCHANGED dv
    /\ UNCHANGED <<standalone, config, dirState, fs, run, failedFile, returned, err>>

\* if (!signedUrl) signedUrl = await gongExport.getSignedMediaUrl(call.id)
StandardSigned ==
    /\ pc = "getSignedMediaUrl"
    /\ \E g \in SignedOutcomes :
         LET o == [obs EXCEPT !.reqs = @ \cup {"signed", "api"}]
         IN  CASE g.result = "url" ->
                    /\ dv' = [NoDv EXCEPT !.url = g.url,
                                          !.filename = Filename(idx, g.url)]
                    /\ obs' = [o EXCEPT !.resolved = "url"]
                    /\ pc' = "downloadVideo"
                    /\ UNCHANGED <<idx, lists>>
               [] g.result = "null" ->
                    /\ obs' = [o EXCEPT !.resolved = "none"]
                    /\ PushFailure("reason", "No signed media URL available")
                    /\ UNCHANGED dv
               [] g.result = "throw" ->
                    /\ obs' = [o EXCEPT !.resolved = "threw"]
                    /\ PushFailure("error", "Failed to get signed URL")
                    /\ UNCHANGED dv
    /\ UNCHANGED <<standalone, config, dirState, fs, run, failedFile, returned, err>>

\* ---------------------------------------------------------- downloadVideo
\* From the entry of downloadVideo to the existence check: an empty URL
\* returns null; a missing downloads directory is created, and a failing
\* mkdirSync throws out of downloadVideo; an existing file returns its path.
DownloadVideoEntry ==
    /\ pc = "downloadVideo"
    /\ \/ /\ dv.url = NoUrl
          /\ ReturnNull
          /\ UNCHANGED dirState
       \/ /\ dv.url # NoUrl /\ dirState = "absent"
          /\ Throw("Could not create downloads directory")
          /\ UNCHANGED dirState
       \/ /\ dv.url # NoUrl
          /\ dirState' = "exists"
          /\ IF fs[dv.filename] # "absent"
             THEN ReturnPath(dv.filename)
             ELSE pc' = "respectRateLimit" /\ UNCHANGED <<idx, lists>>
    /\ UNCHANGED <<standalone, config, fs, run, failedFile, returned, dv, err, obs>>

\* await this.respectRateLimit(), the first statement of the outer try: one
\* pass of the limiter, which sleeps as needed and never throws.  Its counters
\* (currentCalls, resetTime, lastCallTime) steer no branch of the batch and
\* are not part of this state; the pass itself is recorded in obs.
Gate ==
    /\ pc = "respectRateLimit"
    /\ obs' = [obs EXCEPT !.attempts = @ + 1, !.reqs = @ \cup {"rateLimit"},
                          !.gate = TRUE, !.att = <<>>]
    /\ pc' = "get"
    /\ UNCHANGED <<config, dirState, fs, run, idx, lists, failedFile, returned, dv, err>>

respectRateLimit == Gate /\ UNCHANGED standalone

\* what is observed when a media GET is issued and answered with r
Observe(o, r, auth) ==
    [o EXCEPT !.reqs = @ \cup {"media"},
              !.gate = FALSE,
              !.att = Append(@, [auth |-> auth, ok |-> r.status = "200"]),
              !.targets = @ \cup {dv.url},
              !.owedAtReq = o.owed,
              !.owed = IF r.status = "429" THEN RetryAfterSeconds(r.retryAfter) * 1000 ELSE 0,
              !.n429 = IF r.status = "429" THEN @ + 1 ELSE @]

\* the answers the media server may give now
AnswersUpTo(n) == {r \in MediaResponses : r.status = "429" => obs.n429 < n}
Answers == AnswersUpTo(Max429)

\* where control goes when the request without Authorization header fails:
\* catch (directError), for every error
AfterDirectError(r) == "authGet"

\* variant: the first request carries the Basic token as well
DirectAuthorization_Basic == TRUE

\* whether the first request carries an Authorization header: its axios
\* config has method, url and responseType only
DirectAuthorization == FALSE

\* the second request: headers: { 'Authorization': `Basic ${this.basicToken}` }
RetryAuthorization == TRUE

\* axios GET without Authorization header
UnauthAnswer(r) ==
    /\ pc = "get"
    /\ obs' = Observe(obs, r, DirectAuthorization)
    /\ pc' = IF r.status = "200" THEN "stream" ELSE AfterDirectError(r)
    /\ UNCHANGED <<config, dirState, fs, run, idx, lists, failedFile, returned, dv, err>>

UnauthGet == (\E r \in Answers : UnauthAnswer(r)) /\ UNCHANGED standalone

\* axios GET with Authorization: Basic, in the catch of the first request;
\* its error reaches the outer catch
AuthAnswer(r) ==
    /\ pc = "authGet"
    /\ obs' = Observe(obs, r, RetryAuthorization)
    /\ IF r.status = "200"
       THEN pc' = "stream" /\ err' = err
       ELSE pc' = "catch" /\ err' = r
    /\ UNCHANGED <<config, dirState, fs, run, idx, lists, failedFile, returned, dv>>

AuthGet == (\E r \in Answers : AuthAnswer(r)) /\ UNCHANGED standalone

\* variant: the download is started and not awaited, the loop goes on
Stream_NotAwaited ==
    /\ pc = "stream"
    /\ fs' = [fs EXCEPT ![dv.filename] = "complete"]
    /\ idx' = idx + 1
    /\ pc' = "loop"
    /\ UNCHANGED <<standalone, config, dirState, run, lists, failedFile, returned, dv, err, obs>>

\* createWriteStream + pipe; the returned promise settles on the writer's
\* 'finish' (resolve) or 'error' (reject, which the enclosing try does not
\* catch because the promise is returned without await).  An 'error' of the
\* response stream settles nothing: the writer is never ended.
Stream ==
    /\ pc = "stream"
    /\ \/ /\ fs' = [fs EXCEPT ![dv.filename] = "complete"]
          /\ ReturnPath(dv.filename)
       \/ /\ fs' = [fs EXCEPT ![dv.filename] = "partial"]
          /\ Throw("write error")
       \/ /\ fs' = [fs EXCEPT ![dv.filename] = "partial"]
          /\ pc' = "hung"
          /\ UNCHANGED <<idx, lists>>
    /\ UNCHANGED <<standalone, config, dirState, run, failedFile, returned, dv, err, obs>>

\* the arguments of the recursive call after a 429:
\* this.downloadVideo(url, filename), the other parameters at their defaults
RetryAfter429(d) ==
    [d EXCEPT !.retryCount = 0, !.maxRetries = DefaultMaxRetries,
              !.retryDelay = DefaultRetryDelay]

\* how long the 429 branch sleeps, in ms
Sleep429(e) == RetryAfterSeconds(e.retryAfter) * 1000

\* variant: a 429 is recorded as the failure of the call
Catch429_GivesUp ==
    /\ pc = "catch" /\ err.status = "429"
    /\ Throw(err.status)
    /\ UNCHANGED <<standalone, config, dirState, fs, run, failedFile, returned, dv, err, obs>>

\* catch (error): status 429 -> sleep Retry-After, then downloadVideo again
Catch429 ==
    /\ pc = "catch" /\ err.status = "429"
    /\ obs' = [obs EXCEPT !.owed = Max(0, @ - Sleep429(err)),
                          !.attempts = 0, !.delays = <<>>, !.att = <<>>]
    /\ dv' = RetryAfter429(dv)
    /\ err' = NoErr
    /\ pc' = "downloadVideo"
    /\ UNCHANGED <<standalone, config, dirState, fs, run, idx, lists, failedFile, returned>>

\* the arguments of the recursive call after a backoff:
\* this.downloadVideo(url, filename, nextRetryCount, maxRetries, retryDelay)
RetryAfterBackoff(d) == [d EXCEPT !.retryCount = @ + 1]

\* sleep nextDelay and call downloadVideo again
Backoff ==
    /\ obs' = [obs EXCEPT !.delays = Append(@, NextDelay(dv.retryDelay, dv.retryCount)),
                          !.owed = Max(0, @ - NextDelay(dv.retryDelay, dv.retryCount)),
                          !.att = <<>>]
    /\ dv' = RetryAfterBackoff(dv)
    /\ err' = NoErr
    /\ pc' = "downloadVideo"
    /\ UNCHANGED <<idx, lists>>

\* variant: the error is rethrown when the retries are used up
AccessDenied_Rethrown == Throw(err.status) /\ UNCHANGED <<dv, err, obs>>

\* no retries left in the S3 branch: a warning is logged ("Access denied to
\* S3 URL after N retries") and null is returned
AccessDenied == ReturnNull /\ UNCHANGED <<dv, err, obs>>

\* catch (error): 403/400/404 on an s3.amazonaws.com URL, socket hang up,
\* ECONNRESET, ETIMEDOUT -> retry with backoff, and return null when the
\* retries are used up
CatchS3 ==
    /\ pc = "catch" /\ err.status # "429" /\ IsS3AccessError(err, dv.url)
    /\ IF RetriesLeft(dv.retryCount, dv.maxRetries)
       THEN Backoff
       ELSE AccessDenied
    /\ UNCHANGED <<standalone, config, dirState, fs, run, failedFile, returned>>

\* catch (error): any other error -> retry with backoff, and rethrow when
\* the retries are used up
CatchOther ==
    /\ pc = "catch" /\ err.status # "429" /\ ~IsS3AccessError(err, dv.url)
    /\ IF RetriesLeft(dv.retryCount, dv.maxRetries)
       THEN Backoff
       ELSE Throw(err.status) /\ UNCHANGED <<dv, err, obs>>
    /\ UNCHANGED <<standalone, config, dirState, fs, run, failedFile, returned>>

\* ------------------------------------------------------------ after the loop
\* the failure list is written to failed_video_downloads_*.json when it is
\* not empty, and downloadedFiles is returned
PostLoop_WritesSuccesses ==
    /\ pc = "loop" /\ idx > NumCalls
    /\ failedFile' = IF Len(downloadedFiles) > 0
                      THEN [written |-> TRUE, content |-> failedDownloads]
                      ELSE failedFile
    /\ returned' = [done |-> TRUE, value |-> downloadedFiles]
    /\ pc' = "returned"
    /\ UNCHANGED <<standalone, config, dirState, fs, run, idx, lists, dv, err, obs>>

PostLoop ==
    /\ pc = "loop" /\ idx > NumCalls
    /\ failedFile' = IF Len(failedDownloads) > 0
                      THEN [written |-> TRUE, content |-> failedDownloads]
                      ELSE failedFile
    /\ returned' = [done |-> TRUE, value |-> downloadedFiles]
    /\ pc' = "returned"
    /\ UNCHANGED <<standalone, config, dirState, fs, run, idx, lists, dv, err, obs>>

\* the program is run again on the same call set and storage root: a new
\* process, a new VideoDownloader, new lists
Rerun ==
    /\ pc = "returned" /\ run = 1
    /\ run' = 2
    /\ pc' = "loop"
    /\ idx' = 1
    /\ downloadedFiles' = <<>>
    /\ failedDownloads' = <<>>
    /\ failedFile' = NoFile
    /\ returned' = NotReturned
    /\ dv' = NoDv
    /\ err' = NoErr
    /\ obs' = [NoObs EXCEPT !.run1Clean = (Len(failedDownloads) = 0)]
    /\ UNCHANGED <<standalone, config, dirState, fs>>

Next ==
    \/ ExtensiveNoUrl
    \/ ExtensiveResolve
    \/ StandardHook
    \/ StandardSigned
    \/ DownloadVideoEntry
    \/ respectRateLimit
    \/ UnauthGet
    \/ AuthGet
    \/ Stream
    \/ Catch429
    \/ CatchS3
    \/ CatchOther
    \/ PostLoop

Spec == Init /\ [][Next]_vars

\* two runs on a storage root that starts empty, with the refresh hook
\* export.js installs
InitRerun == Init /\ hookKind = "wrapper" /\ dirState = "absent"

NextRerun == Next \/ Rerun

SpecRerun == InitRerun /\ [][NextRerun]_vars

\* ------------------------------------------------------- respectRateLimit
\* The limiter of one VideoDownloader under any caller: between two calls of
\* respectRateLimit any time may pass, and a timer fires on time or late.
PipelineIdle ==
    /\ method = "extensive" /\ hookKind = "none" /\ dirState = "absent"
    /\ \A c \in CallIds : calls[c].videoUrl = NoUrl

\* what the caller may let pass between two calls
Durations == {TickMs, minTimeBetweenCalls, DayMs}

\* by how much a setTimeout may fire late
Lateness == {0, TickMs}

\* time passes outside respectRateLimit
Elapse ==
    /\ \E d \in Durations : now + d <= MaxNow /\ now' = now + d
    /\ UNCHANGED <<rateLimit, lim, provider, signed, exporter, tally, pipeline>>

\* variant: the spacing wait is left out
SpacingWait_None(timeSinceLastCall) == 0

\* if (timeSinceLastCall < minTimeBetweenCalls) waitTime = minTimeBetweenCalls
\* - timeSinceLastCall
SpacingWait(timeSinceLastCall) ==
    IF timeSinceLastCall < minTimeBetweenCalls
    THEN minTimeBetweenCalls - timeSinceLastCall
    ELSE 0

\* variant: the ceiling is tested with >
AtCeiling_Over(currentCalls) == currentCalls > CallsPerDay

\* if (this.rateLimit.currentCalls >= this.rateLimit.callsPerDay)
AtCeiling(currentCalls) == currentCalls >= CallsPerDay

\* variant: the call is not counted
Counted_Not(currentCalls) == currentCalls

\* this.rateLimit.currentCalls++
Counted(currentCalls) == currentCalls + 1

\* the beginning of the 24-hour window after the counter was reset at time t
WindowStart(t) == IF t >= lim.winStart + DayMs THEN t ELSE lim.winStart

\* One call of respectRateLimit, from entry to return: the daily counter is
\* reset when resetTime is past; at the ceiling the call sleeps until
\* resetTime and zeroes the counter; then it sleeps what is missing of the
\* minimum gap since lastCallTime; then lastCallTime and currentCalls are set.
Pass(late1, late2) ==
      LET elapsed == now > rateLimit.resetTime
          calls1 == IF elapsed THEN 0 ELSE rateLimit.currentCalls
          resetTime1 == IF elapsed THEN now + DayMs ELSE rateLimit.resetTime
          ceiling == AtCeiling(calls1)
          t1 == IF ceiling THEN now + (resetTime1 - now) + late1 ELSE now
          calls2 == IF ceiling THEN 0 ELSE calls1
          wait == SpacingWait(t1 - rateLimit.lastCallTime)
          t2 == IF wait > 0 THEN t1 + wait + late2 ELSE t1
          \* history: the window the pass falls into
          ws == IF ceiling THEN WindowStart(t1)
                ELSE IF elapsed THEN WindowStart(now) ELSE lim.winStart
          opened == ws # lim.winStart
          before == IF opened THEN 0 ELSE lim.winCount
      IN  /\ ceiling \/ late1 = 0
          /\ wait > 0 \/ late2 = 0
          /\ t2 <= MaxNow
          /\ now' = t2
          /\ rateLimit' = [currentCalls |-> Counted(calls2), resetTime |-> resetTime1,
                           lastCallTime |-> t2]
          /\ lim' = [passes |-> lim.passes + 1,
                     gap |-> IF lim.passes = 0 THEN -1 ELSE t2 - lim.lastStart,
                     lastStart |-> t2,
                     suspended |-> ceiling,
                     winStart |-> ws,
                     winCount |-> IF t2 < ws + DayMs THEN before + 1 ELSE before]

RateLimitPass ==
    /\ \E late1 \in Lateness, late2 \in Lateness : Pass(late1, late2)
    /\ UNCHANGED <<provider, signed, exporter, tally, pipeline>>

InitLimiter == Init /\ PipelineIdle

NextLimiter == Elapse \/ RateLimitPass

SpecLimiter == InitLimiter /\ [][NextLimiter]_vars

\* ------------------------------------------------------ getSignedMediaUrl
\* getSignedMediaUrl(callId) taken on its own, against every behaviour of
\* the provider: provider[a] is the answer attempt a gets if it is made
InitSigned ==
    /\ PipelineInit /\ PipelineIdle /\ LimiterInit /\ TallyIdle
    /\ provider \in [1..Len(Attempts) -> ApiResponses]
    /\ signed = NoSigned
    /\ ExporterIdle

CallGetSignedMediaUrl ==
    /\ signed = NoSigned
    /\ signed' = getSignedMediaUrl(provider[1], provider[2], provider[3])
    /\ UNCHANGED <<now, rateLimit, lim, provider, exporter, tally, pipeline>>

NextSigned == CallGetSignedMediaUrl

SpecSigned == InitSigned /\ [][NextSigned]_vars

\* ------------------------------------- the batch with the limiter's counters
\* Spec with the pass of the limiter carried out in full where downloadVideo
\* awaits respectRateLimit, its timers firing on time; every other step
\* leaves the limiter alone, as in Spec.  The attempts of each call and the
\* errors that reach downloadVideo's catch are counted along the way.  The batch is handed to the
\* extensive method of a new VideoDownloader built without refresh hook.
InitGated == Init /\ method = "extensive" /\ hookKind = "none"

GatedPass ==
    /\ Gate /\ Pass(0, 0)
    /\ tally' = [NoTally EXCEPT ![idx] = [tally[idx] EXCEPT !.total = @ + 1]]
    /\ UNCHANGED <<provider, signed, exporter>>

\* what is counted when a media request is answered with r: the request,
\* and whether it was refused with 429
Answered(t, r) ==
    [t EXCEPT ![idx].requests = @ + 1,
              ![idx].refused = IF r.status = "429" THEN @ + 1 ELSE @]

\* what is counted when the error r reaches the outer catch
Caught(t, r) ==
    IF r.status = "200" THEN t
    ELSE IF r.status = "429" THEN [t EXCEPT ![idx].handled429 = @ + 1]
    ELSE [t EXCEPT ![idx].errors = @ + 1]

CountedUnauthGet ==
    /\ \E r \in Answers : UnauthAnswer(r) /\ tally' = Answered(tally, r)
    /\ UNCHANGED <<now, rateLimit, lim, provider, signed, exporter>>

CountedAuthGet ==
    /\ \E r \in Answers : AuthAnswer(r) /\ tally' = Caught(Answered(tally, r), r)
    /\ UNCHANGED <<now, rateLimit, lim, provider, signed, exporter>>

NextGated ==
    \/ ExtensiveNoUrl
    \/ ExtensiveResolve
    \/ DownloadVideoEntry
    \/ GatedPass
    \/ CountedUnauthGet
    \/ CountedAuthGet
    \/ Stream
    \/ Catch429
    \/ CatchS3
    \/ CatchOther
    \/ PostLoop

SpecGated == InitGated /\ [][NextGated]_vars

\* ------------------------------------------- the batch and a refusing server
\* The same batch against a media server that answers the first MaxStall
\* requests of every call with 429 and gives any other answer after that.
StallAnswers ==
    IF obs.n429 < MaxStall
    THEN {r \in MediaResponses : r.status = "429"}
    ELSE {r \in MediaResponses : r.status # "429"}

StalledUnauthGet ==
    /\ \E r \in StallAnswers : UnauthAnswer(r) /\ tally' = Answered(tally, r)
    /\ UNCHANGED <<now, rateLimit, lim, provider, signed, exporter>>

StalledAuthGet ==
    /\ \E r \in StallAnswers : AuthAnswer(r) /\ tally' = Caught(Answered(tally, r), r)
    /\ UNCHANGED <<now, rateLimit, lim, provider, signed, exporter>>

NextStalled ==
    \/ ExtensiveNoUrl
    \/ ExtensiveResolve
    \/ DownloadVideoEntry
    \/ GatedPass
    \/ StalledUnauthGet
    \/ StalledAuthGet
    \/ Stream
    \/ Catch429
    \/ CatchS3
    \/ CatchOther
    \/ PostLoop

SpecStalled == InitGated /\ [][NextStalled]_vars

\* ------------------------------------------- getAllExtensiveCallData alone
\* variant: the page's calls are put in front of the collection
PushCalls_InFront(allCalls, pageData) ==
    IF pageData.hasCalls THEN pageData.calls \o allCalls ELSE allCalls

\* if (pageData.calls && Array.isArray(pageData.calls))
\*     allCalls.push(...pageData.calls)
PushCalls(allCalls, pageData) ==
    IF pageData.hasCalls THEN allCalls \o pageData.calls ELSE allCalls

InitPages ==
    /\ PipelineInit /\ PipelineIdle /\ LimiterInit /\ SignedIdle /\ TallyIdle
    /\ exp = NoExport /\ fn = NoNaming
    /\ \E sv \in Servers :
          pg = [NoPages EXCEPT !.server = sv, !.pc = "while"]

\* one turn of the while loop: the request is sent with the cursor (none the
\* first time), the page's calls are pushed, and the cursor of the response
\* is kept or the loop is left
RequestPage ==
    /\ pg.pc = "while"
    /\ LET pageData == pg.server[pg.cursor]
       IN  pg' = IF ~pageData.ok
                 THEN [pg EXCEPT !.requests = Append(@, pg.cursor),
                                 !.pc = "threw"]
                 ELSE [pg EXCEPT !.requests = Append(@, pg.cursor),
                                 !.responses = Append(@, pageData),
                                 !.allCalls = PushCalls(@, pageData),
                                 !.cursor = IF pageData.cursor # NoCursor
                                            THEN pageData.cursor ELSE @,
                                 !.pc = IF pageData.cursor # NoCursor
                                        THEN "while" ELSE "return"]
    /\ UNCHANGED <<now, rateLimit, lim, provider, signed, exp, fn, tally, pipeline>>

\* return allCalls
ReturnAllCalls ==
    /\ pg.pc = "return"
    /\ pg' = [pg EXCEPT !.pc = "returned"]
    /\ UNCHANGED <<now, rateLimit, lim, provider, signed, exp, fn, tally, pipeline>>

NextPages == RequestPage \/ ReturnAllCalls

SpecPages == InitPages /\ [][NextPages]_vars

\* ------------------------------------------------- the destination filename
\* the characters titles are made of here, and the pieces URLs are made of
TitleChars == {"W", "s", "1", " ", "-"}
UrlPieces == {"rec", ".mp4", ".webm", ".WEBM"}

\* String.prototype.toLowerCase on those
toLowerCase(c) ==
    CASE c = "W" -> "w"
      [] c = "U" -> "u"
      [] c = "C" -> "c"
      [] c = ".WEBM" -> ".webm"
      [] OTHER -> c

\* /[a-z0-9]/ and, with the i flag, /[a-z0-9]/i
LowerAlnum == {"w", "s", "1", "u", "n", "k", "o", "c", "a", "l"}
AnyCaseAlnum == LowerAlnum \cup {"W", "U", "C"}

\* the values of startedDateTime / call.started: missing, an ISO timestamp
\* (with the UTC date toISOString prints for it), something Date cannot parse
NoStart == ""
StartedValues == {NoStart, "2024-03-01T10:00Z", "2024-03-01T23:30-05:00", "soon"}
ISODate(started) ==
    CASE started = "2024-03-01T10:00Z" -> "2024-03-01"
      [] started = "2024-03-01T23:30-05:00" -> "2024-03-02"
      [] OTHER -> "Invalid Date"

\* if (startedDateTime) { try { formattedDate = new Date(startedDateTime)
\* .toISOString().split('T')[0] } catch { } }: toISOString raises a
\* RangeError on an invalid date and formattedDate stays ''
formattedDate(started) ==
    IF started = NoStart THEN ""
    ELSE IF ISODate(started) = "Invalid Date" THEN ""
    ELSE ISODate(started)

\* variant: the URL is searched as it is
fileExt_AsWritten(url) ==
    IF \E i \in 1..Len(url) : url[i] = ".mp4" THEN ".mp4"
    ELSE IF \E i \in 1..Len(url) : url[i] = ".webm" THEN ".webm"
    ELSE ".mp4"

\* url.toLowerCase().includes('.mp4') ? '.mp4'
\*   : url.toLowerCase().includes('.webm') ? '.webm' : '.mp4'
fileExt(url) ==
    IF \E i \in 1..Len(url) : toLowerCase(url[i]) = ".mp4" THEN ".mp4"
    ELSE IF \E i \in 1..Len(url) : toLowerCase(url[i]) = ".webm" THEN ".webm"
    ELSE ".mp4"

\* title.replace(/[^a-z0-9]/gi, '_').toLowerCase()
Sanitized(title) ==
    [i \in 1..Len(title) |->
        toLowerCase(IF title[i] \in AnyCaseAlnum THEN title[i] ELSE "_")]

\* call.metaData?.title || 'Unknown Call'
UnknownCall == <<"U", "n", "k", "n", "o", "w", "n", " ", "C", "a", "l", "l">>

\* `${formattedDate ? formattedDate + '_' : ''}${callId}_${title}${fileExt}`
filename(date, callId, title, ext) ==
    (IF date # "" THEN <<date, "_">> ELSE <<>>)
        \o <<callId, "_">> \o title \o <<ext>>

Titles == UNION {[1..n -> TitleChars] : n \in 0..MaxTitle}

InitNaming ==
    /\ PipelineInit /\ PipelineIdle /\ LimiterInit /\ SignedIdle /\ TallyIdle
    /\ pg = NoPages /\ exp = NoExport
    /\ \E m \in {"extensive", "standard"}, st \in StartedValues,
          ht \in BOOLEAN, t \in Titles, u \in UNION {[1..n -> UrlPieces] : n \in 1..2} :
          /\ ~ht => t = <<>>
          /\ fn = [NoNaming EXCEPT !.pc = "call", !.method = m, !.started = st,
                                    !.hasTitle = ht, !.title = t, !.url = u]

\* The naming of the file of call c1 in either batch loop.  A call without
\* a title is 'Unknown Call' for the extensive method; in the standard method
\* call.title.replace raises a TypeError, which the loop's catch records.
NameFile ==
    /\ fn.pc = "call"
    /\ fn' = IF fn.hasTitle
             THEN [fn EXCEPT !.pc = "named",
                             !.filename = filename(formattedDate(fn.started), "c1",
                                                   Sanitized(fn.title), fileExt(fn.url))]
             ELSE IF fn.method = "extensive"
             THEN [fn EXCEPT !.pc = "named",
                             !.filename = filename(formattedDate(fn.started), "c1",
                                                   Sanitized(UnknownCall), fileExt(fn.url))]
             ELSE [fn EXCEPT !.pc = "threw"]
    /\ UNCHANGED <<now, rateLimit, lim, provider, signed, pg, exp, tally, pipeline>>

\* the name is handed to downloadVideo
UseFilename ==
    /\ fn.pc = "named"
    /\ fn' = [fn EXCEPT !.pc = "downloadVideo"]
    /\ UNCHANGED <<now, rateLimit, lim, provider, signed, pg, exp, tally, pipeline>>

NextNaming == NameFile \/ UseFilename

SpecNaming == InitNaming /\ [][NextNaming]_vars

\* --------------------------------------------------------- exportGongData
\* const enableVideoDownloads = true;
enableVideoDownloads == TRUE

\* what the download phase holds apart from its position
downloads == <<config, dirState, fs, run, idx, lists, failedFile, returned,
               dv, err, obs>>
services == <<now, rateLimit, lim, provider, signed, pg, fn, tally>>

\* A run of the program: the batch method that will be used and the calls
\* it will be handed are the ones the API's answers lead to, and the refresh
\* hook is the wrapper around getSignedMediaUrl that export.js installs.
InitExport ==
    /\ method \in {"extensive", "standard"}
    /\ hookKind = "wrapper"
    /\ calls \in InputArrays(method)
    /\ dirState \in {"exists", "absent"}
    /\ fs \in StorageRoots(dirState)
    /\ run = 1
    /\ pc = "exportGongData"
    /\ idx = 1
    /\ downloadedFiles = <<>>
    /\ failedDownloads = <<>>
    /\ failedFile = NoFile
    /\ returned = NotReturned
    /\ dv = NoDv
    /\ err = NoErr
    /\ obs = NoObs
    /\ LimiterInit /\ SignedIdle /\ TallyIdle
    /\ pg = NoPages /\ fn = NoNaming
    /\ exp = [NoExport EXCEPT !.pc = "checkApiStatus"]

\* process.exit(code) in the main block
Exit(e, code) == [e EXCEPT !.pc = "ended", !.exit = code]

\* variant: a failed status check is logged and the run goes on
StatusFailed_GoesOn(e) == [e EXCEPT !.pc = "exportCallData"]

\* catch: throw new Error('Failed to connect to Gong API'); the outer catch
\* rethrows it and the main block exits with 1
StatusFailed(e) == Exit(e, "1")

\* await gongExport.checkApiStatus()
CheckApiStatus ==
    /\ exp.pc = "checkApiStatus"
    /\ \E ok \in BOOLEAN :
          LET e == [exp EXCEPT !.requests = @ \cup {"checkApiStatus"},
                               !.statusOk = ok]
          IN  exp' = IF ok THEN [e EXCEPT !.pc = "exportCallData"]
                     ELSE StatusFailed(e)
    /\ UNCHANGED <<services, pc, downloads>>

\* exportedData.calls = await gongExport.exportCallData(); saveToFile(...).
\* An error leaves the whole calls block for its catch ("continuing with
\* other exports").
ExportCallData ==
    /\ exp.pc = "exportCallData"
    /\ \E ok \in BOOLEAN :
          exp' = [exp EXCEPT !.requests = @ \cup {"exportCallData"},
                             !.files = IF ok THEN @ \cup {"calls"} ELSE @,
                             !.pc = IF ok THEN "getAllExtensiveCallData"
                                    ELSE "exportUserData"]
    /\ UNCHANGED <<services, pc, downloads>>

\* What getAllExtensiveCallData and the saveToFile after it can do, by the
\* batch method the run ends up with.  The extensive method is reached with
\* a non-empty list that was saved; the catch of the block is reached by an
\* error of the retrieval and by an error of saveToFile (mkdirSync,
\* JSON.stringify, writeFileSync) on a non-empty list, its else branch by an
\* empty list.
Retrievals(m) ==
    IF m = "extensive"
    THEN {[retrieval |-> "calls", saved |-> TRUE]}
    ELSE {[retrieval |-> "threw", saved |-> FALSE],
          [retrieval |-> "empty", saved |-> FALSE],
          [retrieval |-> "calls", saved |-> FALSE]}

\* The extensive block.  A non-empty answer is saved and handed to
\* downloadVideosFromExtensiveCalls; an empty answer or an error leads to
\* downloadVideosUsingStandardMethod, which hands exportedData.calls.calls to
\* downloadVideosForCalls when that is an array.  Either creates a
\* VideoDownloader, and only when enableVideoDownloads is set.
ExtensiveBlock(e0, out, isArray) ==
    LET e == [e0 EXCEPT !.requests = @ \cup {"getAllExtensiveCallData"},
                        !.files = IF out.saved
                                  THEN @ \cup {"extensive_calls"} ELSE @]
    IN  IF enableVideoDownloads /\ (method = "standard" => isArray)
        THEN /\ exp' = [e EXCEPT !.downloader = TRUE,
                                 !.ran = @ \cup {method},
                                 !.pc = "videos"]
             /\ pc' = "loop"
        ELSE /\ exp' = [e EXCEPT !.pc = "exportUserData"]
             /\ pc' = pc

ExportExtensiveCalls ==
    /\ exp.pc = "getAllExtensiveCallData"
    /\ \E out \in Retrievals(method), isArray \in BOOLEAN :
          ExtensiveBlock(exp, out, isArray)
    /\ UNCHANGED <<services, downloads>>

\* the batch method has returned: the list of downloaded videos is saved
\* when it is not empty
VideosReturned ==
    /\ exp.pc = "videos" /\ pc = "returned"
    /\ exp' = [exp EXCEPT !.files = IF Len(returned.value) > 0
                                    THEN @ \cup {"video_downloads"} ELSE @,
                          !.pc = "exportUserData"]
    /\ UNCHANGED <<services, pc, downloads>>

\* The download that never settles: no listener is left that could resume
\* exportGongData.  The process ends when nothing is left to wait for
\* (status 0), or on the stream's unhandled 'error' event (status 1).
ProcessEnds ==
    /\ exp.pc = "videos" /\ pc = "hung"
    /\ \E code \in {"0", "1"} : exp' = Exit(exp, code)
    /\ UNCHANGED <<services, pc, downloads>>

\* exportedData.users = await gongExport.exportUserData(); saveToFile(...)
ExportUserData ==
    /\ exp.pc = "exportUserData"
    /\ \E ok \in BOOLEAN :
          exp' = [exp EXCEPT !.requests = @ \cup {"exportUserData"},
                             !.files = IF ok THEN @ \cup {"users"} ELSE @,
                             !.pc = "saveCombined"]
    /\ UNCHANGED <<services, pc, downloads>>

\* the CRM and analytics placeholders are saved (no request is made for
\* them), then the combined file; exportGongData returns and the main block
\* exits with 0
SaveCombined ==
    /\ exp.pc = "saveCombined"
    /\ exp' = Exit([exp EXCEPT !.files = @ \cup {"crm", "analytics", "gong_export"}],
                   "0")
    /\ UNCHANGED <<services, pc, downloads>>

NextExport ==
    \/ CheckApiStatus
    \/ ExportCallData
    \/ ExportExtensiveCalls
    \/ VideosReturned
    \/ ProcessEnds
    \/ ExportUserData
    \/ SaveCombined
    \/ Next

SpecExport == InitExport /\ [][NextExport]_vars

\* ------------------------------------- a run that remembers the retrieval
\* The same run, with what getAllExtensiveCallData did kept in exp.retrieval
\* (history): "threw", "empty", or "calls" for a non-empty list.
RecordedExtensiveCalls ==
    /\ exp.pc = "getAllExtensiveCallData"
    /\ \E out \in Retrievals(method), isArray \in BOOLEAN :
          ExtensiveBlock([exp EXCEPT !.retrieval = out.retrieval], out, isArray)
    /\ UNCHANGED <<services, downloads>>

NextFallback ==
    \/ CheckApiStatus
    \/ ExportCallData
    \/ RecordedExtensiveCalls
    \/ VideosReturned
    \/ ProcessEnds
    \/ ExportUserData
    \/ SaveCombined
    \/ Next

SpecFallback == InitExport /\ [][NextFallback]_vars

\* ------------------------------------------------------------ properties
\* the outcome of record idx - 1 has just been appended
AtOutcome == pc \in {"loop", "returned"} /\ idx > 1

LastFailure == failedDownloads[Len(failedDownloads)]

LastFailed ==
    AtOutcome /\ Len(failedDownloads) > 0 /\ LastFailure.callId = idx - 1

LastSucceeded ==
    /\ AtOutcome /\ Len(downloadedFiles) > 0
    /\ downloadedFiles[Len(downloadedFiles)].callId = idx - 1

\* how often record c occurs in a list
Occurrences(list, c) == Cardinality({i \in 1..Len(list) : list[i].callId = c})

\* C1: when either batch method returns, the two lists hold exactly NumCalls
\* outcomes, and every input record occurs exactly once in the success list
\* or the failure list, never in both and never in neither.
C1_Partition ==
    pc = "returned" =>
        /\ Len(downloadedFiles) + Len(failedDownloads) = NumCalls
        /\ \A c \in CallIds :
              Occurrences(downloadedFiles, c) + Occurrences(failedDownloads, c) = 1

C1_Witness ==
    pc = "returned" /\ Len(downloadedFiles) > 0 /\ Len(failedDownloads) > 0

ExhaustedWithout429 ==
    /\ LastFailed
    /\ LastFailure.msg \in {"Download returned null"} \cup ErrorStatuses
    /\ obs.attempts > 0
    /\ obs.n429 = 0

\* C3: a call whose download always fails with a retryable non-429 error is
\* recorded as failed after exactly maxRetries + 1 attempts, with the waits
\* base * 2^(attempt - 1) between them (2000, 4000, 8000 ms).
C3_BackoffBound ==
    ExhaustedWithout429 =>
        /\ obs.attempts = DefaultMaxRetries + 1
        /\ obs.delays = [i \in 1..DefaultMaxRetries |-> DefaultRetryDelay * Pow2(i - 1)]
        /\ obs.delays = <<2000, 4000, 8000>>

C3_Witness == ExhaustedWithout429 /\ obs.attempts = 4

\* C4: the 429 branch restarts the download with the retry count, maxRetries
\* and base delay that were in effect before the 429.
C4_RetryStateKept ==
    [][(pc = "catch" /\ err.status = "429") =>
          /\ dv'.retryCount = dv.retryCount
          /\ dv'.maxRetries = dv.maxRetries
          /\ dv'.retryDelay = dv.retryDelay]_vars

\* C5: after a 429 answer to a media request, the next media request of the
\* call is issued only when at least Retry-After has been waited.
C5_WaitAfter429 == obs.owedAtReq = 0

\* C6: in a second run after a run in which every call completed, no media
\* request is issued and no call fails.
C6_Idempotent ==
    (run = 2 /\ obs.run1Clean) =>
        /\ "media" \notin obs.reqs
        /\ Len(failedDownloads) = 0

\* record idx - 1 succeeded without a media request: the file-exists skip
Skipped == LastSucceeded /\ "media" \notin obs.reqs

\* C7: for a record whose destination file already exists no request of any
\* kind is issued.
C7_NoRequestWhenFileExists == Skipped => obs.reqs = {}

\* C8: for a record with an embedded URL whose refresh hook returned a URL,
\* every media request goes to the hook's URL, none to the embedded URL.
C8_HookUrlPrecedence ==
    (obs.embedded /\ obs.hook = "url") =>
        /\ obs.targets \subseteq {obs.hookUrl}
        /\ calls[IF AtOutcome THEN idx - 1 ELSE idx].videoUrl \notin obs.targets

C8_Witness ==
    /\ obs.embedded /\ obs.hook = "url"
    /\ obs.targets = {obs.hookUrl}

\* C9: a record without embedded URL is recorded as failed for lack of a URL
\* only after the refresh hook (when configured) and the signed-URL
\* resolution were tried.
C9_ResolutionBeforeFailure ==
    (LastFailed /\ ~obs.embedded /\ obs.resolved = "none") =>
        /\ hookKind # "none" => "hook" \in obs.reqs
        /\ "signed" \in obs.reqs

\* the reason texts of the two "no URL" failures
NoUrlReasons ==
    {"No video URL in extensive call data", "No signed media URL available"}

\* C10: a record for which no URL could be resolved is recorded as failed
\* with a reason entry saying so, without a media request and without a pass
\* of the rate limiter, and the loop goes on.
C10_NoUrlFailsDirectly ==
    obs.resolved = "none" =>
        /\ LastFailed
        /\ LastFailure.key = "reason"
        /\ LastFailure.msg \in NoUrlReasons
        /\ "media" \notin obs.reqs
        /\ "rateLimit" \notin obs.reqs

C10_Witness == obs.resolved = "none" /\ pc = "loop" /\ idx <= NumCalls

\* a media GET is issued in this step
MediaRequestIssued == Len(obs'.att) > Len(obs.att)

\* a request to /v2/calls/{id}/media is issued in this step, by the refresh
\* hook of export.js or by the signed-URL fallback
ResolutionRequestIssued ==
    /\ pc \in {"loop", "getSignedMediaUrl"} /\ pc' # "returned"
    /\ "api" \in obs'.reqs

\* C11: every HTTP request issued for a call, for URL resolution or for the
\* media itself, with or without Authorization header, directly follows a
\* completed pass of respectRateLimit of its own.
C11_EveryRequestGated ==
    [][(MediaRequestIssued \/ ResolutionRequestIssued) => obs.gate]_vars

\* C14: in every download attempt at most two media requests are issued; the
\* first carries no Authorization header, and the second carries it and is
\* issued only when the first one of the same attempt failed.
C14_UnauthenticatedFirst ==
    /\ Len(obs.att) <= 2
    /\ Len(obs.att) >= 1 => ~obs.att[1].auth
    /\ Len(obs.att) = 2 => obs.att[2].auth /\ ~obs.att[1].ok

\* the authenticated request of an attempt was issued and answered with 200
C14_Witness ==
    /\ pc = "stream"
    /\ Len(obs.att) = 2 /\ obs.att[2].auth /\ obs.att[2].ok

\* C12: two successive download attempts of one VideoDownloader start at
\* least 1000/callsPerSecond + 50 ms apart, 550 ms with callsPerSecond = 2;
\* an attempt starts when its pass of respectRateLimit lets it go on.
C12_MinSpacing ==
    lim.passes >= 2 =>
        /\ lim.gap >= (1000 \div callsPerSecond) + 50
        /\ lim.gap >= 550

\* a pass that had to sleep: it ended exactly one minimum gap after the last
C12_Witness == lim.passes >= 2 /\ lim.gap = 550

\* C13: within the 24 hours after the daily counter was reset, no more than
\* callsPerDay attempts are let through.
C13_DailyCeiling == lim.winCount <= CallsPerDay

\* the S3 branch of downloadVideo's catch is entered with no retries left
S3RetriesExhausted ==
    /\ pc = "catch" /\ err.status # "429"
    /\ IsS3AccessError(err, dv.url)
    /\ ~RetriesLeft(dv.retryCount, dv.maxRetries)

\* the step appends a failure of the current record with this reason and
\* goes on to the next record
FailsWithReason(msg) ==
    /\ failedDownloads' = Append(failedDownloads,
                                 [callId |-> idx, key |-> "reason", msg |-> msg])
    /\ downloadedFiles' = downloadedFiles
    /\ pc' = "loop" /\ idx' = idx + 1

\* C15 as stated: when the retries of a 403 on an object-storage URL, or of
\* a connection reset, are used up, the call is recorded as a Failure with
\* reason "access denied / retries exhausted" and the next call is processed.
C15_AccessDeniedReason ==
    [][S3RetriesExhausted => FailsWithReason("access denied / retries exhausted")]_vars

\* C15, amended: ... the call is recorded as a Failure with reason "Download
\* returned null" and the next call is processed.
C15_ReturnedNullReason ==
    [][S3RetriesExhausted => FailsWithReason("Download returned null")]_vars

\* record idx - 1 was given up after four attempts that ended in the S3 branch
C15_Witness ==
    /\ LastFailed /\ LastFailure.msg = "Download returned null"
    /\ obs.attempts = DefaultMaxRetries + 1 /\ obs.n429 = 0
    /\ err.status \in {"403", "ECONNRESET"}
    /\ dv.retryCount = dv.maxRetries

\* C16: a call that failed with an error raised inside downloadVideo, a
\* write error included, and never saw a 429, was retried maxRetries times
\* with backoff before the Failure was recorded.
C16_OtherErrorsRetried ==
    (LastFailed /\ LastFailure.key = "error" /\ obs.attempts > 0 /\ obs.n429 = 0) =>
        /\ obs.attempts = DefaultMaxRetries + 1
        /\ Len(obs.delays) = DefaultMaxRetries

\* C17: no download that opened the destination file ends up with the file
\* open, the transfer over and nothing left that could settle the call.
C17_DownloadSettles == pc # "hung"

\* one of downloadVideo's own steps is the next one
Downloading ==
    pc \in {"downloadVideo", "respectRateLimit", "get", "authGet", "stream", "catch", "hung"}

YieldsUrl(a) == provider[a].ok /\ provider[a].url # NoUrl

\* the attempts getSignedMediaUrl made
Made == 1..signed.nreq

\* when one of the attempts made yields a URL, the URL of the first such
\* attempt is returned
ReturnsFirstUrl ==
    (\E a \in Made : YieldsUrl(a)) =>
        LET first == CHOOSE a \in Made : YieldsUrl(a) /\ \A b \in Made : YieldsUrl(b) => a <= b
        IN  signed.result = "url" /\ signed.url = provider[first].url

\* C19 as stated: getSignedMediaUrl returns the first URL found, and returns
\* null, without raising, whenever none of the attempts made yields a URL.
C19_NullWhenNoUrl ==
    signed # NoSigned =>
        /\ ReturnsFirstUrl
        /\ (\A a \in Made : ~YieldsUrl(a)) => signed.result = "null"

\* C19, amended: ... and when none of the attempts made yields a URL, it
\* returns null if the first PUT was answered with success, and raises the
\* first PUT's error if the first PUT failed.
C19_NullOrFirstError ==
    signed # NoSigned =>
        /\ ReturnsFirstUrl
        /\ (\A a \in Made : ~YieldsUrl(a)) =>
              signed.result = IF provider[1].ok THEN "null" ELSE "throw"

\* all three attempts were made, the last two answered with success and no
\* url, and the call raised
C19_Witness ==
    /\ signed.result = "throw" /\ signed.nreq = Len(Attempts)
    /\ provider[2].ok /\ provider[3].ok

\* C20: the attempts are made in the order of Attempts, and attempt a is
\* made exactly when no earlier attempt yielded a URL, whether it failed or
\* succeeded without url.
C20_FallbackOrder ==
    signed # NoSigned =>
        \A a \in 1..Len(Attempts) :
            a \in Made <=> \A b \in 1..(a - 1) : ~YieldsUrl(b)

\* C21: when signed-URL resolution for a call raised an error, it is not
\* run again for that call; when the call fails for it, the Failure
\* carries the error entry of the signed-URL step, and the loop goes on.
C21_ResolutionNotRetried ==
    /\ obs.hook = "caught" => "signed" \notin obs.reqs
    /\ obs.resolved = "threw" =>
          /\ LastFailed /\ LastFailure.key = "error"
          /\ LastFailure.msg = "Failed to get signed URL"

\* C22: a failure to create the downloads directory never becomes a Failure
\* entry of a call.
C22_MkdirFatal ==
    \A i \in 1..Len(failedDownloads) :
        failedDownloads[i].msg # "Could not create downloads directory"

\* C24: once the batch method has returned, the failure side-file exists
\* exactly when the failure list is not empty and then holds that list, and
\* the value returned is the success list.
C24_SideFileAndReturn ==
    pc = "returned" =>
        /\ failedFile.written <=> Len(failedDownloads) > 0
        /\ failedFile.written => failedFile.content = failedDownloads
        /\ returned = [done |-> TRUE, value |-> downloadedFiles]

\* a batch that ended with one success and one failure
C24_Witness ==
    /\ pc = "returned"
    /\ Len(downloadedFiles) = 1 /\ Len(failedDownloads) = 1
    /\ failedFile.written /\ returned.value = downloadedFiles

\* the calls of the responses rs, one after the other
RECURSIVE Concatenated(_)
Concatenated(rs) ==
    IF rs = <<>> THEN <<>>
    ELSE Concatenated(SubSeq(rs, 1, Len(rs) - 1)) \o rs[Len(rs)].calls

\* C25: the first request carries no cursor and each later one the cursor of
\* the response before it; the loop goes on exactly while responses carry a
\* cursor; what is returned is the pages' calls in the order received, each
\* call of each page once.
C25_Pagination ==
    /\ Len(pg.requests) > 0 => pg.requests[1] = NoCursor
    /\ \A i \in 2..Len(pg.requests) :
          /\ pg.responses[i - 1].cursor # NoCursor
          /\ pg.requests[i] = pg.responses[i - 1].cursor
    /\ pg.pc = "returned" =>
          /\ Len(pg.requests) = Len(pg.responses)
          /\ pg.responses[Len(pg.responses)].cursor = NoCursor
          /\ pg.allCalls = Concatenated(pg.responses)
          /\ \A i, j \in 1..Len(pg.allCalls) :
                pg.allCalls[i] = pg.allCalls[j] => i = j

\* three pages were fetched, the middle one without a calls array, and four
\* calls came back
C25_Witness ==
    /\ pg.pc = "returned"
    /\ Len(pg.requests) = MaxPages
    /\ Len(pg.allCalls) = 4
    /\ ~pg.responses[2].hasCalls

\* the run is over
Ended == exp.pc = "ended"

\* C23: a run whose status check failed ends with a non-zero status, and
\* by then no other request was made, no file written, no VideoDownloader
\* created and no call looked at.
C23_AbortOnStatusFailure ==
    (exp.pc \notin {"idle", "checkApiStatus"} /\ ~exp.statusOk) =>
        /\ Ended /\ exp.exit = "1"
        /\ exp.requests = {"checkApiStatus"}
        /\ exp.files = {}
        /\ ~exp.downloader
        /\ pc = "exportGongData" /\ obs = NoObs /\ returned = NotReturned

C23_Witness == Ended /\ ~exp.statusOk /\ exp.exit = "1"

\* C26: a run that passed the status check and is over has attempted the
\* user export and written the combined file.
C26_VideoFailuresContained ==
    (Ended /\ exp.statusOk) =>
        /\ "exportUserData" \in exp.requests
        /\ "gong_export" \in exp.files

\* C27: no VideoDownloader is created and no media request is issued.
C27_DisabledByDefault == ~exp.downloader /\ "media" \notin obs.reqs

\* C29: the run ends with status 0 exactly when the status check passed,
\* and a run that ends with status 0 has completed the export.
C29_PerItemFailuresContained ==
    Ended =>
        /\ exp.exit = "0" <=> exp.statusOk
        /\ exp.exit = "0" => {"gong_export"} \subseteq exp.files

\* a file name has been built for a call that has a title
Named == fn.pc \in {"named", "downloadVideo"} /\ fn.hasTitle

\* the title in lower case with everything outside [a-z0-9] replaced by "_"
LowerCasedThenReplaced(title) ==
    [i \in 1..Len(title) |->
        IF toLowerCase(title[i]) \in LowerAlnum THEN toLowerCase(title[i]) ELSE "_"]

\* the date part: there exactly when the start parses to a valid date
DatePart(started) ==
    IF started # NoStart /\ ISODate(started) # "Invalid Date"
    THEN <<ISODate(started), "_">> ELSE <<>>

Contains(url, piece) == \E i \in 1..Len(url) : url[i] = piece
ContainsAnyCase(url, piece) == \E i \in 1..Len(url) : toLowerCase(url[i]) = piece

\* C28 as stated: the name is <date_>?<callId>_<sanitized title><ext>, with
\* ext ".mp4" if the URL contains ".mp4", else ".webm" if it contains
\* ".webm", else ".mp4".
C28_FilenameFormat ==
    Named =>
        fn.filename = DatePart(fn.started) \o <<"c1", "_">>
                        \o LowerCasedThenReplaced(fn.title)
                        \o <<IF Contains(fn.url, ".mp4") THEN ".mp4"
                              ELSE IF Contains(fn.url, ".webm") THEN ".webm"
                              ELSE ".mp4">>

\* C28 (amended): the same, the URL being searched without regard to case.
C28_FilenameFormatAnyCase ==
    Named =>
        fn.filename = DatePart(fn.started) \o <<"c1", "_">>
                        \o LowerCasedThenReplaced(fn.title)
                        \o <<IF ContainsAnyCase(fn.url, ".mp4") THEN ".mp4"
                              ELSE IF ContainsAnyCase(fn.url, ".webm") THEN ".webm"
                              ELSE ".mp4">>

\* title "W s" started 2024-03-01T10:00Z with a URL ending in .mp4 was named
\* 2024-03-01_c1_w_s.mp4
C28_Witness ==
    /\ Named
    /\ fn.title = <<"W", " ", "s">> /\ fn.started = "2024-03-01T10:00Z"
    /\ fn.url = <<"rec", ".mp4">>
    /\ fn.filename = <<"2024-03-01", "_", "c1", "_", "w", "_", "s", ".mp4">>

\* a step that is a pass of the limiter carried out by downloadVideo
IsPass == pc = "respectRateLimit" /\ pc' = "get"

\* C30 as stated: the rate-limit state changes in no step but a pass of
\* respectRateLimit, and every pass leaves currentCalls one higher than it
\* found it.
C30_OnlyByPassPlusOne ==
    [][/\ ~IsPass => rateLimit' = rateLimit
       /\ IsPass => rateLimit'.currentCalls = rateLimit.currentCalls + 1]_vars

\* C30 (amended): the rate-limit state changes in no step but a pass; a
\* pass that neither finds the window elapsed nor the ceiling reached leaves
\* currentCalls one higher, and a pass that resets the counter leaves it at 1.
C30_OnlyByPassCounted ==
    [][/\ ~IsPass => rateLimit' = rateLimit
       /\ IsPass =>
            rateLimit'.currentCalls =
                IF now > rateLimit.resetTime \/ rateLimit.currentCalls >= CallsPerDay
                THEN 1 ELSE rateLimit.currentCalls + 1]_vars

\* a batch in which one call failed for lack of a URL and the limiter has
\* counted the passes of the other call
C30_Witness ==
    /\ pc = "returned"
    /\ rateLimit.currentCalls > 0
    /\ \E i \in 1..Len(failedDownloads) : failedDownloads[i].msg \in NoUrlReasons

\* a step inside the processing of one call, from the first entry of
\* downloadVideo to its outcome
SameDownload == idx' = idx /\ pc # "loop" /\ pc # "getSignedMediaUrl"

\* C31: the retry count of a download stays within 0..maxRetries, never
\* goes down while one call is processed, and is 0 when downloadVideo is
\* entered for a new call.
C31_RetryCountMonotone ==
    [][/\ dv'.retryCount \in 0..dv'.maxRetries
       /\ SameDownload => dv'.retryCount >= dv.retryCount
       /\ (pc \in {"loop", "getSignedMediaUrl"} /\ pc' = "downloadVideo") =>
              dv'.retryCount = 0]_vars

\* the three parts of C31 apart
C31_Bounded == dv.retryCount \in 0..dv.maxRetries
C31_StartsAtZero ==
    [][(pc \in {"loop", "getSignedMediaUrl"} /\ pc' = "downloadVideo") =>
          dv'.retryCount = 0]_vars

\* a step that is a completed pass of respectRateLimit
PassCompleted == lim'.passes = lim.passes + 1

\* C32: the daily counter never exceeds the ceiling; when a pass of
\* respectRateLimit has completed it is between 1 and callsPerDay, and
\* resetTime is not further in the past than the pass has lasted.
C32_CounterWithinCeiling ==
    [][/\ rateLimit'.currentCalls <= CallsPerDay
       /\ PassCompleted =>
            /\ rateLimit'.currentCalls \in 1..CallsPerDay
            /\ now' - rateLimit'.resetTime <= now' - now]_vars

\* a pass has just completed after the suspension at the ceiling: it counts
\* as the first call, and resetTime is not in the future any more
C32_Witness ==
    /\ lim.suspended /\ lim.passes > CallsPerDay
    /\ rateLimit.currentCalls = 1
    /\ rateLimit.resetTime <= now

\* the record being processed, or the one whose outcome was just recorded
Current == IF AtOutcome THEN idx - 1 ELSE idx

\* the reasons with which a call fails before downloadVideo is called
ResolutionFailures == NoUrlReasons \cup {"Failed to get signed URL"}

\* the refresh hook of the extensive method was called for a record with an
\* embedded URL and threw or returned null
HookFailedOnEmbedded ==
    /\ method = "extensive" /\ obs.embedded
    /\ obs.hook \in {"null", "throw", "caught"}

\* C33: in the extensive method a hook that throws or returns null does not
\* fail a record that has an embedded URL: downloadVideo is called with the
\* embedded URL, every media request goes to it, and a failure of the call,
\* if any, is a failure of the download.
C33_HookFailureTolerated ==
    HookFailedOnEmbedded =>
        /\ dv.url = calls[Current].videoUrl
        /\ obs.targets \subseteq {calls[Current].videoUrl}
        /\ LastFailed => LastFailure.msg \notin ResolutionFailures

\* the hook threw and the record was downloaded from its embedded URL
C33_Witness ==
    /\ HookFailedOnEmbedded /\ obs.hook = "throw"
    /\ LastSucceeded /\ obs.targets = {calls[Current].videoUrl}

\* C34: in the standard method the hook is tried before the signed-URL
\* resolution, and a call whose hook threw or returned no URL is not
\* recorded as failed before getSignedMediaUrl was invoked for it.
C34_FallbackAfterHook ==
    method = "standard" =>
        /\ ("signed" \in obs.reqs /\ hookKind # "none") => "hook" \in obs.reqs
        /\ (LastFailed /\ obs.hook \in {"null", "throw", "caught"}) =>
              "signed" \in obs.reqs

\* the two parts of C34 apart: the order, and the fallback after a hook
\* that returned no URL
C34_HookFirst ==
    (method = "standard" /\ "signed" \in obs.reqs /\ hookKind # "none") =>
        "hook" \in obs.reqs
C34_FallbackAfterNull ==
    (method = "standard" /\ LastFailed /\ obs.hook \in {"null", "caught"}) =>
        "signed" \in obs.reqs

\* the files of record c in the storage root
FilesOf(c) == {p \in Paths : p[1] = c /\ fs[p] # "absent"}

\* C35: when, in the second run, downloadVideo is entered for a record of
\* which the first run left a file, the destination it is given is the path
\* of that file, whichever URL was resolved this time.
C35_SamePathEveryRun ==
    (run = 2 /\ pc = "downloadVideo" /\ FilesOf(idx) # {}) =>
        dv.filename \in FilesOf(idx)

\* C36: every file reported in the success list is completely written.
C36_SuccessIsComplete ==
    \A i \in 1..Len(downloadedFiles) : fs[downloadedFiles[i].filePath] = "complete"


\* C37: for every call, with k the number of 429 answers its 429 handler has
\* seen, at most (k + 1) * (maxRetries + 1) attempts are made, and at most
\* maxRetries + 1 of them end in an error other than 429.
C37_AttemptBudget ==
    \A c \in CallIds :
        /\ tally[c].total <= (tally[c].handled429 + 1) * (DefaultMaxRetries + 1)
        /\ tally[c].errors <= DefaultMaxRetries + 1

\* the first part of C37 alone
C37_TotalBound ==
    \A c \in CallIds :
        tally[c].total <= (tally[c].handled429 + 1) * (DefaultMaxRetries + 1)

\* media requests were made for call c and every one was answered 429
OnlyRefused(c) == tally[c].requests > 0 /\ tally[c].refused = tally[c].requests

\* C38: as long as every media request of a call is answered 429, the call
\* has no outcome and no later call is processed, however many 429s there
\* were: the handler starts the download over with nothing used up.
C38_StalledBy429 ==
    \A c \in CallIds :
        OnlyRefused(c) =>
            /\ idx = c /\ pc # "returned"
            /\ Occurrences(downloadedFiles, c) + Occurrences(failedDownloads, c) = 0
            /\ dv.retryCount = 0

\* four requests of the first call were refused, the 429 handler has run
\* twice, and the download is about to start over once more
C38_Witness ==
    /\ OnlyRefused(1) /\ tally[1].refused >= 4
    /\ tally[1].handled429 >= 2
    /\ pc = "downloadVideo" /\ dv.retryCount = 0

\* the extensive block of the run is over
Retrieved == exp.retrieval # "none"

\* C39: in one run downloadVideosForCalls runs if and only if the extensive
\* retrieval threw or returned no calls; in particular a non-empty list does
\* not lead to the standard method.
C39_StandardIffNoExtensive ==
    Retrieved => ("standard" \in exp.ran <=> exp.retrieval \in {"threw", "empty"})

\* the second part of C39 alone: the two batch methods never both run
C39_NeverBoth == Cardinality(exp.ran) <= 1

\* one direction of C39: the extensive method runs only on a non-empty list
C39_ExtensiveOnlyOnCalls ==
    "extensive" \in exp.ran => exp.retrieval = "calls"
====
